---- MODULE Spec2Model ----
(***************************************************************************)
(* rdocs: extraction of labelled blocks from source files (parser.rs,      *)
(* pattern.rs) and their replacement between per-identifier marker pairs   *)
(* in target documents (replacer.rs).                                      *)
(*                                                                         *)
(* Text is modelled as a sequence of lexemes.  A lexeme is a record        *)
(* [k, v, w]: k is its kind, v its characters, w the amount of optional    *)
(* whitespace \s* inside a marker comment.                                 *)
(***************************************************************************)
EXTENDS Integers, Sequences, FiniteSets, TLC

\* disk:     the target files, path to text
\* contents: the ContentResults handed to the replacer
\* call:     the last call of the replacer and the disk it started from
\* src:      the lines of the source file under extraction
\* ext:      where the extraction stands, with the locals of Content::extract
\* sources:  the source files handed to batch extraction, path to file
VARIABLES disk, contents, call, src, ext, sources, cmd, workers

vars == <<disk, contents, call, src, ext, sources, cmd, workers>>

----------------------------------------------------------------------------
(* Lexemes of a target document *)

Tok(k, v, w) == [k |-> k, v |-> v, w |-> w]

\* the start marker comment of id as it stands in a document, w = the
\* whitespace it holds between the comment brackets and the identifier
StartMarker(id, w) == Tok("start", id, w)
\* the end marker comment of id
EndMarker(id, w) == Tok("end", id, w)
\* a newline: whitespace for str::trim
NL == Tok("ws", "nl", 0)
\* plain text
X == Tok("text", "x", 0)
Y == Tok("text", "y", 0)
\* the characters ${g}: plain text in a document, a capture-group reference
\* when they stand in the replacement string handed to Regex::replace_all
Ref(g) == Tok("ref", g, 0)
\* the characters of an identifier, as captured by the inner group (ID)
IdText(id) == Tok("text", id, 0)

\* identifiers that are literal regular expressions
Ids == {"a", "b"}
\* an identifier that is no valid regular expression once substituted: "("
BadId == "("

----------------------------------------------------------------------------
(* str::trim *)

IsWs(t) == t.k = "ws"

RECURSIVE trim_start(_)
trim_start(s) ==
    IF s = <<>> THEN <<>>
    ELSE IF IsWs(Head(s)) THEN trim_start(Tail(s)) ELSE s

RECURSIVE trim_end(_)
trim_end(s) ==
    IF s = <<>> THEN <<>>
    ELSE IF IsWs(s[Len(s)]) THEN trim_end(SubSeq(s, 1, Len(s) - 1)) ELSE s

trim(s) == trim_end(trim_start(s))

Max(S) == CHOOSE m \in S : \A n \in S : n <= m
Min(S) == CHOOSE m \in S : \A n \in S : m <= n

----------------------------------------------------------------------------
(* Lexemes of a source file, and the configured patterns *)

\* text a pattern's start or end regex matches; v names the regex
Marker(v) == Tok("marker", v, 0)
\* the token <id:VALUE>, w = the whitespace around VALUE
IdTag(id, w) == Tok("idtag", id, w)
\* text a cleanup regex matches; v names the regex
Cleanable(v) == Tok("clean", v, 0)

\* Pattern: start and end name the marker text their regex matches; anchored
\* tells a regex that begins with a greedy any-characters prefix, which
\* matches at most once per line
Pattern(start, end, anchored, cleanups) ==
    [start |-> start, end |-> end, anchored |-> anchored, cleanups |-> cleanups]

\* Config::patterns: the built-in pattern, then a configured second one of
\* the form the parser tests use
Patterns ==
    <<Pattern("START", "END", FALSE, <<"doc">>),
      Pattern("P2_START", "P2_END", TRUE, <<"fence">>)>>

\* Regex::is_match on one line
line_matches(regex, line) == \E i \in 1..Len(line) : line[i] = Marker(regex)

\* Pattern::start_with, Pattern::end_with
start_with(pattern, line) == line_matches(pattern.start, line)
end_with(pattern, line) == line_matches(pattern.end, line)

RECURSIVE Sum(_)
Sum(ns) == IF ns = <<>> THEN 0 ELSE Head(ns) + Sum(Tail(ns))

\* regex.captures_iter(&content).count() over the whole text of the file:
\* every occurrence counts, but an anchored regex matches once per line
captures_count(regex, anchored, content) ==
    Sum([l \in 1..Len(content) |->
           IF anchored
           THEN IF line_matches(regex, content[l]) THEN 1 ELSE 0
           ELSE Cardinality({i \in 1..Len(content[l]) :
                                content[l][i] = Marker(regex)})])

\* ContentMetadata::new: the first <id:VALUE> of the line, VALUE trimmed
HasMetadata(line) == \E i \in 1..Len(line) : line[i].k = "idtag"
ContentMetadata_new(line) ==
    line[Min({i \in 1..Len(line) : line[i].k = "idtag"})].v

\* a cleanup regex that matches what any cleanup regex matches
RECURSIVE cleanup_one_any(_, _)
cleanup_one_any(regex, text) ==
    IF text = <<>> THEN <<>>
    ELSE IF Head(text).k = "clean" THEN cleanup_one_any(regex, Tail(text))
    ELSE <<Head(text)>> \o cleanup_one_any(regex, Tail(text))

\* one cleanup regex: replace_all(text, "")
RECURSIVE cleanup_one(_, _)
cleanup_one(regex, text) ==
    IF text = <<>> THEN <<>>
    ELSE IF Head(text) = Cleanable(regex) THEN cleanup_one(regex, Tail(text))
    ELSE <<Head(text)>> \o cleanup_one(regex, Tail(text))

\* Pattern::cleanup: the cleanup regexes in their order
RECURSIVE cleanup_with(_, _)
cleanup_with(cleanups, text) ==
    IF cleanups = <<>> THEN text
    ELSE cleanup_with(Tail(cleanups), cleanup_one(Head(cleanups), text))

cleanup(pattern, text) == cleanup_with(pattern.cleanups, text)

\* lines.join("\n")
RECURSIVE join(_)
join(lines) ==
    IF lines = <<>> THEN <<>>
    ELSE IF Len(lines) = 1 THEN Head(lines)
    ELSE Head(lines) \o <<NL>> \o join(Tail(lines))

----------------------------------------------------------------------------
(* Content::new and Content::extract *)

NoError == [kind |-> "none", pattern_start |-> "", pattern_end |-> ""]

\* ParseError::PatterNotEqual
PatterNotEqual(pattern) ==
    [kind |-> "PatterNotEqual", pattern_start |-> pattern.start,
     pattern_end |-> pattern.end]

\* the for loop of Content::new from pattern i on
RECURSIVE new_loop(_, _, _, _)
new_loop(content, patterns, i, expected_capture_count) ==
    IF i > Len(patterns)
    THEN [ok |-> TRUE, err |-> NoError,
          expected_capture_count |-> expected_capture_count]
    ELSE LET pattern == patterns[i]
             start_count == captures_count(pattern.start, pattern.anchored, content)
             end_count == captures_count(pattern.end, pattern.anchored, content)
         IN IF start_count # end_count
            THEN [ok |-> FALSE, err |-> PatterNotEqual(pattern),
                  expected_capture_count |-> 0]
            ELSE new_loop(content, patterns, i + 1,
                          expected_capture_count + start_count)

\* Content::new comparing the totals over all patterns
Content_new_totals(content, patterns) ==
    LET starts == Sum([i \in 1..Len(patterns) |->
                    captures_count(patterns[i].start, patterns[i].anchored, content)])
        ends == Sum([i \in 1..Len(patterns) |->
                    captures_count(patterns[i].end, patterns[i].anchored, content)])
    IN IF starts # ends
       THEN [ok |-> FALSE, err |-> PatterNotEqual(patterns[1]),
             expected_capture_count |-> 0]
       ELSE [ok |-> TRUE, err |-> NoError, expected_capture_count |-> starts]

\* Content::new
Content_new(content, patterns) == new_loop(content, patterns, 1, 0)

\* ContentBlock under its key (pattern_index, level) of the BTreeMap
ContentBlock(pattern_index, level, id, lines) ==
    [pattern_index |-> pattern_index, level |-> level, id |-> id, lines |-> lines]

\* the key ordered by level first
KeyLess_level_first(a, b) ==
    \/ a.level < b.level
    \/ a.level = b.level /\ a.pattern_index < b.pattern_index

KeyLess(a, b) ==
    \/ a.pattern_index < b.pattern_index
    \/ a.pattern_index = b.pattern_index /\ a.level < b.level

\* the key without the level
SameKey_pattern_only(a, b) == a.pattern_index = b.pattern_index

SameKey(a, b) == a.pattern_index = b.pattern_index /\ a.level = b.level

\* BTreeMap::entry(key).or_insert(block): the map is kept in key order and
\* an entry that exists stays
RECURSIVE entry_or_insert(_, _)
entry_or_insert(map, block) ==
    IF map = <<>> THEN <<block>>
    ELSE IF SameKey(Head(map), block) THEN map
    ELSE IF KeyLess(block, Head(map)) THEN <<block>> \o map
    ELSE <<Head(map)>> \o entry_or_insert(Tail(map), block)

\* push_line on every block of the pattern, whatever its level
push_line_every_level(map, pattern_index, level, line) ==
    [k \in 1..Len(map) |->
       IF map[k].pattern_index = pattern_index
       THEN [map[k] EXCEPT !.lines = Append(@, line)]
       ELSE map[k]]

\* BTreeMap::get_mut(key) then lines.push(line); nothing without the key
push_line(map, pattern_index, level, line) ==
    [k \in 1..Len(map) |->
       IF map[k].pattern_index = pattern_index /\ map[k].level = level
       THEN [map[k] EXCEPT !.lines = Append(@, line)]
       ELSE map[k]]

\* remove that leaves the entry
stack_remove_none(level_stack, pattern_index) == level_stack

\* HashMap::insert, remove, contains_key on level_stack: pattern_index to
\* the line_index of its last start marker
stack_remove(level_stack, pattern_index) ==
    {e \in level_stack : e[1] # pattern_index}
stack_insert(level_stack, pattern_index, line_index) ==
    stack_remove(level_stack, pattern_index) \cup {<<pattern_index, line_index>>}
contains_key(level_stack, pattern_index) ==
    \E e \in level_stack : e[1] = pattern_index

\* scan_pattern counting a start marker before it looks for the identifier
scan_pattern_idless_counts(st, patterns, pattern_index, line, line_index) ==
    LET pattern == patterns[pattern_index] IN
    IF start_with(pattern, line)
    THEN LET level == st.current_levels[pattern_index] + 1 IN
         IF ~HasMetadata(line)
         THEN [st EXCEPT !.current_levels[pattern_index] = level]
         ELSE [current_levels |-> [st.current_levels EXCEPT ![pattern_index] = level],
               level_stack |-> stack_insert(st.level_stack, pattern_index, line_index),
               collected |-> entry_or_insert(st.collected,
                                ContentBlock(pattern_index, level,
                                             ContentMetadata_new(line), <<>>))]
    ELSE IF end_with(pattern, line)
    THEN [st EXCEPT !.level_stack = stack_remove(@, pattern_index)]
    ELSE IF contains_key(st.level_stack, pattern_index)
    THEN [st EXCEPT !.collected =
            push_line(@, pattern_index, st.current_levels[pattern_index], line)]
    ELSE st

\* scan_pattern clearing level_stack at an end marker
scan_pattern_end_clears(st, patterns, pattern_index, line, line_index) ==
    LET pattern == patterns[pattern_index] IN
    IF start_with(pattern, line)
    THEN IF ~HasMetadata(line) THEN st
         ELSE LET level == st.current_levels[pattern_index] + 1 IN
              [current_levels |-> [st.current_levels EXCEPT ![pattern_index] = level],
               level_stack |-> stack_insert(st.level_stack, pattern_index, line_index),
               collected |-> entry_or_insert(st.collected,
                                ContentBlock(pattern_index, level,
                                             ContentMetadata_new(line), <<>>))]
    ELSE IF end_with(pattern, line)
    THEN [st EXCEPT !.level_stack = {}]
    ELSE IF contains_key(st.level_stack, pattern_index)
    THEN [st EXCEPT !.collected =
            push_line(@, pattern_index, st.current_levels[pattern_index], line)]
    ELSE st

\* scan_pattern taking the counter back at an end marker
scan_pattern_end_decrements(st, patterns, pattern_index, line, line_index) ==
    LET pattern == patterns[pattern_index] IN
    IF start_with(pattern, line)
    THEN IF ~HasMetadata(line) THEN st
         ELSE LET level == st.current_levels[pattern_index] + 1 IN
              [current_levels |-> [st.current_levels EXCEPT ![pattern_index] = level],
               level_stack |-> stack_insert(st.level_stack, pattern_index, line_index),
               collected |-> entry_or_insert(st.collected,
                                ContentBlock(pattern_index, level,
                                             ContentMetadata_new(line), <<>>))]
    ELSE IF end_with(pattern, line)
    THEN [st EXCEPT !.level_stack = stack_remove(@, pattern_index),
                    !.current_levels[pattern_index] = Max({0, @ - 1})]
    ELSE IF contains_key(st.level_stack, pattern_index)
    THEN [st EXCEPT !.collected =
            push_line(@, pattern_index, st.current_levels[pattern_index], line)]
    ELSE st

\* scan_pattern taking the end-marker line into the open block
scan_pattern_keeps_end_line(st, patterns, pattern_index, line, line_index) ==
    LET pattern == patterns[pattern_index] IN
    IF start_with(pattern, line)
    THEN IF ~HasMetadata(line) THEN st
         ELSE LET level == st.current_levels[pattern_index] + 1 IN
              [current_levels |-> [st.current_levels EXCEPT ![pattern_index] = level],
               level_stack |-> stack_insert(st.level_stack, pattern_index, line_index),
               collected |-> entry_or_insert(st.collected,
                                ContentBlock(pattern_index, level,
                                             ContentMetadata_new(line), <<>>))]
    ELSE IF end_with(pattern, line)
    THEN [st EXCEPT !.level_stack = stack_remove(@, pattern_index),
                    !.collected =
                        IF contains_key(st.level_stack, pattern_index)
                        THEN push_line(@, pattern_index,
                                       st.current_levels[pattern_index], line)
                        ELSE @]
    ELSE IF contains_key(st.level_stack, pattern_index)
    THEN [st EXCEPT !.collected =
            push_line(@, pattern_index, st.current_levels[pattern_index], line)]
    ELSE st

\* the body of the inner loop of Content::extract: one line, one pattern
scan_pattern(st, patterns, pattern_index, line, line_index) ==
    LET pattern == patterns[pattern_index] IN
    IF start_with(pattern, line)
    THEN IF ~HasMetadata(line) THEN st
         ELSE LET level == st.current_levels[pattern_index] + 1 IN
              [current_levels |-> [st.current_levels EXCEPT ![pattern_index] = level],
               level_stack |-> stack_insert(st.level_stack, pattern_index, line_index),
               collected |-> entry_or_insert(st.collected,
                                ContentBlock(pattern_index, level,
                                             ContentMetadata_new(line), <<>>))]
    ELSE IF end_with(pattern, line)
    THEN [st EXCEPT !.level_stack = stack_remove(@, pattern_index)]
    ELSE IF contains_key(st.level_stack, pattern_index)
    THEN [st EXCEPT !.collected =
            push_line(@, pattern_index, st.current_levels[pattern_index], line)]
    ELSE st

\* the inner loop: every pattern, in configuration order, on one line
RECURSIVE scan_line(_, _, _, _, _)
scan_line(st, patterns, pattern_index, line, line_index) ==
    IF pattern_index > Len(patterns) THEN st
    ELSE scan_line(scan_pattern(st, patterns, pattern_index, line, line_index),
                   patterns, pattern_index + 1, line, line_index)

\* finalize cleaning every block with the first pattern
finalize_first_pattern(map, patterns) ==
    [k \in 1..Len(map) |->
       LET match_content == join(map[k].lines)
           cleanup_result == cleanup(patterns[1], match_content)
       IN [id |-> map[k].id, data |-> trim(cleanup_result)]]

\* the last loop of Content::extract: one ContentResults per block, in key
\* order
finalize(map, patterns) ==
    [k \in 1..Len(map) |->
       LET match_content == join(map[k].lines)
           cleanup_result == cleanup(patterns[map[k].pattern_index], match_content)
       IN [id |-> map[k].id, data |-> trim(cleanup_result)]]

\* the state of one extraction: where it stands and its local variables
ExtState(pc, err, count, line_index, st, results) ==
    [pc |-> pc, err |-> err, expected_capture_count |-> count,
     line_index |-> line_index, current_levels |-> st.current_levels,
     level_stack |-> st.level_stack, collected |-> st.collected,
     results |-> results]

\* let mut level_stack, collected_scoped_content, current_levels
ScanStart ==
    [current_levels |-> [i \in 1..Len(Patterns) |-> 0], level_stack |-> {},
     collected |-> <<>>]

NotStarted == ExtState("start", NoError, 0, 0, ScanStart, <<>>)

\* let mut level_stack, collected_scoped_content, current_levels for any
\* list of patterns
scan_start(patterns) ==
    [current_levels |-> [i \in 1..Len(patterns) |-> 0], level_stack |-> {},
     collected |-> <<>>]

\* the outer loop of Content::extract from line_index on
RECURSIVE scan_lines(_, _, _, _)
scan_lines(st, patterns, lines, line_index) ==
    IF line_index >= Len(lines) THEN st
    ELSE scan_lines(scan_line(st, patterns, 1, lines[line_index + 1], line_index),
                    patterns, lines, line_index + 1)

\* Content::extract on the lines of a file
extract(lines, patterns) ==
    finalize(scan_lines(scan_start(patterns), patterns, lines, 0).collected,
             patterns)

----------------------------------------------------------------------------
(* The marker-pair matcher of one identifier, built from the templates     *)
(* DEFAULT_START_PATTERN and DEFAULT_END_PATTERN: group 1 is the whole     *)
(* start marker, group 2 the identifier in it, group 3 the text between    *)
(* the markers, group 4 the whole end marker, group 5 the identifier in it *)

\* Regex::new on the template with the identifier substituted
Regex_new(id) == id # BadId

StartsAt(content, id) ==
    {i \in 1..Len(content) : content[i].k = "start" /\ content[i].v = id}

EndsAt(content, id) ==
    {j \in 1..Len(content) : content[j].k = "end" /\ content[j].v = id}

\* Regex::is_match: some start marker of id with an end marker of id after it
is_match(content, id) ==
    \E i \in StartsAt(content, id), j \in EndsAt(content, id) : i < j

\* Regex::captures: the leftmost match; group 3 is greedy and crosses
\* lines, so the match runs from the first start marker to the last end marker
captures(content, id) ==
    LET e == Max(EndsAt(content, id))
        s == Min({i \in StartsAt(content, id) : i < e})
    IN [s |-> s, e |-> e]

\* Captures::get(g).as_str()
capture_get(content, id, m, g) ==
    CASE g = "0" -> SubSeq(content, m.s, m.e)
      [] g = "1" -> <<content[m.s]>>
      [] g = "2" -> <<IdText(id)>>
      [] g = "3" -> SubSeq(content, m.s + 1, m.e - 1)
      [] g = "4" -> <<content[m.e]>>
      [] g = "5" -> <<IdText(id)>>
      [] OTHER -> <<>>

\* Captures::expand: every $group of the replacement string is replaced by
\* the text of that capture group (the empty string when there is none)
RECURSIVE expand(_, _, _, _)
expand(replacement, content, id, m) ==
    IF replacement = <<>> THEN <<>>
    ELSE LET t == Head(replacement)
             rest == expand(Tail(replacement), content, id, m)
         IN IF t.k = "ref" THEN capture_get(content, id, m, t.v) \o rest
            ELSE <<t>> \o rest

\* Regex::replace_all(content, &replace).  After the greedy match no end
\* marker of id is left, so the first match is the only one.
replace_all(content, id, replacement) ==
    LET m == captures(content, id)
    IN SubSeq(content, 1, m.s - 1)
         \o expand(replacement, content, id, m)
         \o SubSeq(content, m.e + 1, Len(content))

----------------------------------------------------------------------------
(* ReplaceStatus, ReplaceResult *)

Status(kind, id, all_content, block) ==
    [kind |-> kind, id |-> id, all_content |-> all_content, block |-> block]

ReplaceResult(path, status) == [path |-> path, status |-> status]

IsReplaced(r) == r.status.kind = "Replaced"

\* is_equal without the trim of the captured text
is_equal_untrimmed(captured, data) == captured = data

\* the comparison of find_and_replace: the captured text, trimmed, against
\* the data as it is
is_equal(captured, data) == trim(captured) = data

\* Replace::find_and_replace once the matcher is built
find_in(content, parse_content) ==
    LET id == parse_content.id IN
    IF is_match(content, id)
    THEN LET m == captures(content, id) IN
         IF is_equal(capture_get(content, id, m, "3"), parse_content.data)
         THEN [ok |-> TRUE, err |-> "",
               status |-> Status("Equal", id, <<>>, <<>>)]
         ELSE LET keep_start == capture_get(content, id, m, "1")
                  keep_end == capture_get(content, id, m, "4")
                  replace == keep_start \o <<NL>> \o parse_content.data
                                \o <<NL>> \o keep_end
              IN [ok |-> TRUE, err |-> "",
                  status |-> Status("Replaced", id,
                                    replace_all(content, id, replace),
                                    parse_content.data)]
    ELSE [ok |-> TRUE, err |-> "", status |-> Status("NotFound", id, <<>>, <<>>)]

\* find_and_replace turning the failure into a status of the identifier
find_and_replace_degrading(content, parse_content) ==
    IF ~Regex_new(parse_content.id)
    THEN [ok |-> TRUE, err |-> "",
          status |-> Status("Error", parse_content.id, <<>>, <<>>)]
    ELSE find_in(content, parse_content)

\* Replace::find_and_replace: Regex::new(..)? returns the error to the caller
find_and_replace(content, parse_content) ==
    IF ~Regex_new(parse_content.id)
    THEN [ok |-> FALSE, err |-> "regex parse error",
          status |-> Status("none", parse_content.id, <<>>, <<>>)]
    ELSE find_in(content, parse_content)

----------------------------------------------------------------------------
(* Replace::replace, Replace::replace_with_save and the batch entry points *)
(* over a file system fs: a function from paths to the text of the file.   *)

\* the content of a file that is not valid UTF-8
InvalidUtf8 == <<Tok("bytes", "invalid", 0)>>

\* std::fs::read_to_string: Err for a file that is not valid UTF-8
read_to_string_ok(fs, path) == \A i \in 1..Len(fs[path]) : fs[path][i].k # "bytes"
read_to_string(fs, path) == fs[path]

\* the files that cannot be opened for writing
ReadOnlyPaths == {"docs/locked.md"}

\* File::create(path): Err for a file that cannot be opened for writing
File_create_ok(path) == path \notin ReadOnlyPaths

\* File::create followed by write_all
write_all(fs, path, text) == [fs EXCEPT ![path] = text]

\* next_content taking the text of every status
next_content_always(content, status) == status.all_content

\* next_content keeping the text that was read
next_content_never(content, status) == content

\* the running text after one status: only Replaced changes it
next_content(content, status) ==
    IF status.kind = "Replaced" THEN status.all_content ELSE content

\* push at the front
push_front(results, path, status) == <<ReplaceResult(path, status)>> \o results

\* results.push
push(results, path, status) == Append(results, ReplaceResult(path, status))

\* The for loop of Replace::replace.  seen and texts are history: the
\* statuses computed so far (also when the loop is left by an error) and the
\* running text after each ContentResults.
RECURSIVE replace_loop(_, _, _, _, _)
replace_loop(path, parse_contents, content, results, texts) ==
    IF parse_contents = <<>>
    THEN [ok |-> TRUE, err |-> "", content |-> content, results |-> results,
          seen |-> results, texts |-> texts]
    ELSE LET r == find_and_replace(content, Head(parse_contents)) IN
         IF ~r.ok
         THEN [ok |-> FALSE, err |-> r.err, content |-> <<>>, results |-> <<>>,
               seen |-> results, texts |-> texts]
         ELSE LET new_content == next_content(content, r.status)
              IN replace_loop(path, Tail(parse_contents), new_content,
                              push(results, path, r.status),
                              Append(texts, new_content))

\* replace saving the text it computed
replace_saving(fs, path, parse_contents) ==
    LET ret == replace_loop(path, parse_contents, read_to_string(fs, path),
                            <<>>, <<>>)
    IN [ret |-> ret,
        fs |-> IF ret.ok THEN write_all(fs, path, ret.content) ELSE fs,
        created |-> {path}]

\* Replace::replace: the returned value and the file system it leaves
replace(fs, path, parse_contents) ==
    IF ~read_to_string_ok(fs, path)
    THEN [ret |-> [ok |-> FALSE, err |-> "stream did not contain valid UTF-8",
                   content |-> <<>>, results |-> <<>>, seen |-> <<>>,
                   texts |-> <<>>],
          fs |-> fs, created |-> {}]
    ELSE [ret |-> replace_loop(path, parse_contents, read_to_string(fs, path),
                               <<>>, <<>>),
          fs |-> fs, created |-> {}]

\* replace_with_save writing whenever a marker pair was found
replace_with_save_found(fs, path, parse_contents) ==
    LET r == replace(fs, path, parse_contents) IN
    IF ~r.ret.ok THEN r
    ELSE LET is_changed == \E i \in 1..Len(r.ret.results) :
                               r.ret.results[i].status.kind # "NotFound"
         IN IF is_changed
            THEN [ret |-> r.ret,
                  fs |-> write_all(r.fs, path, r.ret.content),
                  created |-> {path}]
            ELSE r

\* replace_with_save saving the text of the replacements made before the
\* failure
replace_with_save_eager(fs, path, parse_contents) ==
    LET r == replace(fs, path, parse_contents)
        is_changed == \E i \in 1..Len(r.ret.seen) : IsReplaced(r.ret.seen[i])
    IN IF is_changed
       THEN [ret |-> r.ret,
             fs |-> write_all(r.fs, path, r.ret.texts[Len(r.ret.texts)]),
             created |-> {path}]
       ELSE r

\* Replace::replace_with_save
replace_with_save(fs, path, parse_contents) ==
    LET r == replace(fs, path, parse_contents) IN
    IF ~r.ret.ok THEN r
    ELSE LET is_changed == \E i \in 1..Len(r.ret.results) :
                               IsReplaced(r.ret.results[i])
         IN IF is_changed
            THEN IF ~File_create_ok(path)
                 THEN [ret |-> [ok |-> FALSE, err |-> "Permission denied",
                                content |-> <<>>, results |-> <<>>,
                                seen |-> r.ret.seen, texts |-> r.ret.texts],
                       fs |-> r.fs, created |-> {}]
                 ELSE [ret |-> r.ret,
                       fs |-> write_all(r.fs, path, r.ret.content),
                       created |-> {path}]
            ELSE r

\* the ReplaceResult a batch entry point makes of a file's Err
ErrorResult(path, err) == <<ReplaceResult(path, Status("Error", err, <<>>, <<>>))>>

\* flatten of the per-file vectors, in the order of the files
RECURSIVE flatten(_)
flatten(vecs) ==
    IF vecs = <<>> THEN <<>> ELSE Head(vecs) \o flatten(Tail(vecs))

\* the closure of a batch entry point dropping a file that fails
file_statuses_none(path, r) ==
    IF r.ret.ok THEN r.ret.results ELSE <<>>

\* the closure of a batch entry point on one file: the statuses of the file,
\* or one Error status for its path
file_statuses(path, r) ==
    IF r.ret.ok THEN r.ret.results ELSE ErrorResult(path, r.ret.err)

\* files.par_iter().flat_map(..).flatten().collect(): every file is handled
\* by its own call, which reads and writes that file only
par_collect(fs, files, per_file) ==
    [results |-> flatten([i \in 1..Len(files) |->
                            file_statuses(files[i], per_file[i])]),
     fs |-> [p \in DOMAIN fs |->
               IF \E i \in 1..Len(files) : files[i] = p
               THEN per_file[CHOOSE i \in 1..Len(files) : files[i] = p].fs[p]
               ELSE fs[p]],
     created |-> UNION {per_file[i].created : i \in 1..Len(files)}]

\* Replace::replace_content over the files the collector gave
replace_content(fs, files, parse_contents) ==
    par_collect(fs, files,
                [i \in 1..Len(files) |->
                   replace_with_save(fs, files[i], parse_contents)])

\* stats calling replace_with_save
stats_saving(fs, files, parse_contents) ==
    par_collect(fs, files,
                [i \in 1..Len(files) |->
                   replace_with_save(fs, files[i], parse_contents)])

\* Replace::stats
stats(fs, files, parse_contents) ==
    par_collect(fs, files,
                [i \in 1..Len(files) |-> replace(fs, files[i], parse_contents)])

----------------------------------------------------------------------------
(* Parser::extract_content over a tree of source files: a function from    *)
(* paths to files, a file being readable or not and holding lines.         *)

SourceFile(readable, lines) == [readable |-> readable, lines |-> lines]

\* File::open(path)? and read_to_string(..)? of Content::new
File_open(fs, path) == fs[path].readable

\* the closure of extract_content on one path: the vector of Some(res), or
\* nothing for None
extract_file(fs, path, patterns) ==
    IF ~File_open(fs, path) THEN <<>>
    ELSE LET parse_content == Content_new(fs[path].lines, patterns) IN
         IF ~parse_content.ok THEN <<>>
         ELSE IF parse_content.expected_capture_count = 0 THEN <<>>
         ELSE extract(fs[path].lines, patterns)

\* extract_content collecting into one Result: a file that fails leaves
\* nothing of the batch
extract_content_all_or_nothing(fs, files, patterns) ==
    IF \E i \in 1..Len(files) :
          \/ ~File_open(fs, files[i])
          \/ ~Content_new(fs[files[i]].lines, patterns).ok
    THEN <<>>
    ELSE flatten([i \in 1..Len(files) |-> extract_file(fs, files[i], patterns)])

\* Parser::extract_content: files.par_iter().flat_map(..).flatten().collect()
extract_content(fs, files, patterns) ==
    flatten([i \in 1..Len(files) |-> extract_file(fs, files[i], patterns)])

----------------------------------------------------------------------------
(* The inputs: target documents and parser::ContentResults *)

MaxDocLen == 3
MaxContents == 2

SeqsUpTo(S, n) == UNION {[1..k -> S] : k \in 0..n}

\* the markers of a are written with inner whitespace, those of b without
DocTokens ==
    {StartMarker("a", 1), EndMarker("a", 1),
     StartMarker("b", 0), EndMarker("b", 0), X, NL}

\* documents with two marker pairs, side by side and one inside the other,
\* and with a marker pair between two marker pairs of another identifier
LongDocs ==
    {<<StartMarker("a", 1), EndMarker("a", 1), StartMarker("b", 0), EndMarker("b", 0)>>,
     <<StartMarker("a", 1), StartMarker("b", 0), EndMarker("b", 0), EndMarker("a", 1)>>,
     <<StartMarker("a", 1), EndMarker("a", 1), StartMarker("b", 0), EndMarker("b", 0),
       StartMarker("a", 1), EndMarker("a", 1)>>}

Docs == SeqsUpTo(DocTokens, MaxDocLen) \cup LongDocs

Paths == {"README.md"}

ContentResults(id, data) == [id |-> id, data |-> data]

\* data is trimmed (parser.rs: cleanup_result.trim()); it may hold a dollar
\* sign followed by a group number
ParseContents ==
    {ContentResults("a", <<X>>), ContentResults("b", <<X>>),
     ContentResults("a", <<Ref("5")>>), ContentResults(BadId, <<X>>)}

\* Collector::collect_files: the files in any order
Orders(S) ==
    {f \in [1..Cardinality(S) -> S] : \A i, j \in DOMAIN f : i # j => f[i] # f[j]}

----------------------------------------------------------------------------
(* State: the files on disk, the ContentResults handed to the replacer     *)
(* and the record of the last call, with the file system it started from.  *)

\* no command has run
NoCmd == [op |-> "none"]

\* no batch is being worked on
NoWorkers == [op |-> "none"]

NoCall ==
    [op |-> "none", files |-> <<>>, ok |-> TRUE, err |-> "", content |-> <<>>,
     results |-> <<>>, seen |-> <<>>, texts |-> <<>>, created |-> {}]

Init ==
    /\ disk \in [Paths -> Docs]
    /\ contents \in SeqsUpTo(ParseContents, MaxContents)
    /\ call = [c |-> NoCall, pre |-> disk]
    /\ src = <<>>
    /\ ext = NotStarted
    /\ sources = <<>>
    /\ cmd = NoCmd
    /\ workers = NoWorkers

FileCall(op, path, r) ==
    [c |-> [op |-> op, files |-> <<path>>, ok |-> r.ret.ok, err |-> r.ret.err,
            content |-> r.ret.content, results |-> r.ret.results,
            seen |-> r.ret.seen, texts |-> r.ret.texts, created |-> r.created],
     pre |-> disk]

BatchCall(op, files, r) ==
    [c |-> [op |-> op, files |-> files, ok |-> TRUE, err |-> "",
            content |-> <<>>, results |-> r.results, seen |-> <<>>,
            texts |-> <<>>, created |-> r.created],
     pre |-> disk]

Replace(path) ==
    LET r == replace(disk, path, contents) IN
    /\ call' = FileCall("replace", path, r)
    /\ disk' = r.fs
    /\ UNCHANGED <<contents, src, ext, sources, cmd, workers>>

ReplaceWithSave(path) ==
    LET r == replace_with_save(disk, path, contents) IN
    /\ call' = FileCall("replace_with_save", path, r)
    /\ disk' = r.fs
    /\ UNCHANGED <<contents, src, ext, sources, cmd, workers>>

Stats(files) ==
    LET r == stats(disk, files, contents) IN
    /\ call' = BatchCall("stats", files, r)
    /\ disk' = r.fs
    /\ UNCHANGED <<contents, src, ext, sources, cmd, workers>>

ReplaceContent(files) ==
    LET r == replace_content(disk, files, contents) IN
    /\ call' = BatchCall("replace_content", files, r)
    /\ disk' = r.fs
    /\ UNCHANGED <<contents, src, ext, sources, cmd, workers>>

Next ==
    \/ \E path \in DOMAIN disk : Replace(path)
    \/ \E path \in DOMAIN disk : ReplaceWithSave(path)
    \/ \E files \in Orders(DOMAIN disk) : Stats(files)
    \/ \E files \in Orders(DOMAIN disk) : ReplaceContent(files)

Spec == Init /\ [][Next]_vars

----------------------------------------------------------------------------
(* Extraction of one source file: Content::new, then Content::extract line *)
(* by line.                                                                *)

MaxLines == 4

Ws == Tok("ws", "sp", 0)

\* the lines a source file is made of
LineSet ==
    {<<Marker("START"), IdTag("a", 0)>>,
     <<Marker("START"), IdTag("b", 1), Marker("START")>>,
     <<Marker("START")>>,
     <<Marker("START"), IdTag("b", 1), Marker("END")>>,
     <<Marker("END")>>,
     <<Marker("END"), Marker("END")>>,
     <<Marker("P2_START"), IdTag("a", 0)>>,
     <<Marker("P2_END")>>,
     <<Marker("START"), Marker("P2_END")>>,
     <<X>>,
     <<Ws, Cleanable("doc"), Y>>}

\* files with a start marker inside a block of the same pattern
LongFiles ==
    {<<<<Marker("START"), IdTag("a", 0)>>, <<X>>,
       <<Marker("START"), IdTag("b", 1), Marker("END")>>, <<X>>,
       <<Marker("END")>>, <<X>>>>,
     <<<<Marker("START"), IdTag("a", 0)>>, <<X>>,
       <<Marker("START"), IdTag("a", 0)>>, <<Ws, Cleanable("doc"), Y>>,
       <<Marker("END")>>, <<X>>, <<Marker("END")>>>>}

Files == SeqsUpTo(LineSet, MaxLines) \cup LongFiles

InitExtract ==
    /\ src \in Files
    /\ ext = NotStarted
    /\ disk = [p \in Paths |-> <<>>]
    /\ contents = <<>>
    /\ call = [c |-> NoCall, pre |-> disk]
    /\ sources = <<>>
    /\ cmd = NoCmd
    /\ workers = NoWorkers

\* Content::new
ContentNew ==
    /\ ext.pc = "start"
    /\ LET r == Content_new(src, Patterns) IN
       ext' = ExtState(IF r.ok THEN "scan" ELSE "failed", r.err,
                       r.expected_capture_count, 0, ScanStart, <<>>)
    /\ UNCHANGED <<disk, contents, call, src, sources, cmd, workers>>

\* one iteration of the outer loop of Content::extract
ScanLine ==
    /\ ext.pc = "scan"
    /\ ext.line_index < Len(src)
    /\ LET st == scan_line(ext, Patterns, 1, src[ext.line_index + 1], ext.line_index)
       IN ext' = ExtState("scan", ext.err, ext.expected_capture_count,
                          ext.line_index + 1, st, <<>>)
    /\ UNCHANGED <<disk, contents, call, src, sources, cmd, workers>>

\* the end of Content::extract: Ok(results)
Finalize ==
    /\ ext.pc = "scan"
    /\ ext.line_index = Len(src)
    /\ ext' = ExtState("done", ext.err, ext.expected_capture_count,
                       ext.line_index, ext, finalize(ext.collected, Patterns))
    /\ UNCHANGED <<disk, contents, call, src, sources, cmd, workers>>

NextExtract == ContentNew \/ ScanLine \/ Finalize

SpecExtract == InitExtract /\ [][NextExtract]_vars

----------------------------------------------------------------------------
(* Batch extraction over a tree of source files *)

MaxBatchLines == 3

SrcPaths == {"a.rs", "b.rs"}

BatchLineSet ==
    {<<Marker("START"), IdTag("a", 0)>>,
     <<Marker("START"), IdTag("b", 1), Marker("END")>>,
     <<Marker("END")>>,
     <<Ws, Cleanable("doc"), Y>>}

\* a file that cannot be read, and the files that can
SourceFiles ==
    {SourceFile(FALSE, <<>>)}
      \cup {SourceFile(TRUE, lines) : lines \in SeqsUpTo(BatchLineSet, MaxBatchLines)}

InitBatch ==
    /\ sources \in [SrcPaths -> SourceFiles]
    /\ contents = <<>>
    /\ disk = [p \in Paths |-> <<>>]
    /\ call = [c |-> NoCall, pre |-> disk]
    /\ src = <<>>
    /\ ext = NotStarted
    /\ cmd = NoCmd
    /\ workers = NoWorkers

\* Parser::extract_content on the files the collector gave
ExtractContent(files) ==
    /\ contents' = extract_content(sources, files, Patterns)
    /\ call' = [c |-> [NoCall EXCEPT !.op = "extract_content", !.files = files],
                pre |-> disk]
    /\ UNCHANGED <<disk, src, ext, sources, cmd, workers>>

NextBatch == \E files \in Orders(DOMAIN sources) : ExtractContent(files)

SpecBatch == InitBatch /\ [][NextBatch]_vars

----------------------------------------------------------------------------
(* The commands of the binary: collect and replace, over a tree of source  *)
(* files and a tree of target files.                                       *)

TargetPaths == {"README.md", "docs/locked.md"}

\* Path::file_name: the last component of the path
file_name(path) ==
    CASE path = "docs/locked.md" -> "locked.md"
      [] OTHER -> path

\* the place of a file name in the order of OsStr, which compares bytes:
\* capitals come before small letters
OsStr_rank(name) ==
    CASE name = "README.md" -> 1
      [] name = "locked.md" -> 2
      [] OTHER -> 3

\* the place of results[i] after the stable sort: behind the results with a
\* smaller file name and behind the earlier ones with the same file name
sorted_index(results, i) ==
    LET key(k) == OsStr_rank(file_name(results[k].path))
    IN Cardinality({k \in 1..Len(results) :
                       key(k) < key(i) \/ (key(k) = key(i) /\ k <= i)})

\* replace_results.sort_by(|a, b| a.path.file_name().cmp(&b.path.file_name()))
sort_by_file_name(results) ==
    [n \in 1..Len(results) |->
       results[CHOOSE i \in 1..Len(results) : sorted_index(results, i) = n]]

\* the records pushed to the table builder after the header: NotFound and
\* Error are skipped
table_records(results) ==
    LET shown == SelectSeq(results,
                           LAMBDA r : r.status.kind \notin {"NotFound", "Error"})
    IN [k \in 1..Len(shown) |->
          [id |-> shown[k].status.id, status |-> shown[k].status.kind,
           path |-> shown[k].path,
           content |-> IF shown[k].status.kind = "Replaced"
                       THEN shown[k].status.block ELSE <<>>]]

\* the value a command returns to main: which constructor of CmdExit made
\* it, CmdExit::ok() or CmdExit::error_with_message(..), and the message
CmdExit_ok == [ctor |-> "ok", message |-> ""]
CmdExit_error_with_message(message) ==
    [ctor |-> "error_with_message", message |-> message]

\* --format, absent or given
Formats == {"none", "json", "yaml"}

\* --output: absent, a directory that can be written, one that cannot
Outputs == {"stdout", "out", "denied"}

\* out::Content::export: the files written under the output directory
export(format, output, results) ==
    IF output = "stdout" THEN [ok |-> TRUE, err |-> "", written |-> {}]
    ELSE IF output = "denied"
    THEN [ok |-> FALSE, err |-> "Permission denied", written |-> {}]
    ELSE [ok |-> TRUE, err |-> "",
          written |-> IF format = "none"
                      THEN {results[i].id : i \in 1..Len(results)}
                      ELSE IF format = "json" THEN {"rdocs.json"}
                      ELSE {"rdocs.yaml"}]

\* collect exporting whatever was extracted
collect_exec_always_exports(srcs, files, format, output) ==
    LET results == extract_content(srcs, files, Patterns)
        e == export(format, output, results)
    IN [results |-> results, exported |-> TRUE, written |-> e.written,
        exit |-> IF ~e.ok
                 THEN CmdExit_error_with_message("export result error")
                 ELSE CmdExit_ok]

\* cmd::collect::exec after the configuration is loaded
collect_exec(srcs, files, format, output) ==
    LET results == extract_content(srcs, files, Patterns) IN
    IF results = <<>>
    THEN [results |-> results, exported |-> FALSE, written |-> {},
          exit |-> CmdExit_error_with_message(
                       "code captures not found in the given path")]
    ELSE LET e == export(format, output, results)
         IN [results |-> results, exported |-> TRUE, written |-> e.written,
             exit |-> IF ~e.ok
                      THEN CmdExit_error_with_message("export result error")
                      ELSE CmdExit_ok]

\* the replace command failing a dry run that finds a block to replace
replace_exec_check_mode(srcs, fs, src_files, files, dry_run) ==
    LET parser_result == extract_content(srcs, src_files, Patterns)
        r == IF dry_run THEN stats(fs, files, parser_result)
             ELSE replace_content(fs, files, parser_result)
        replace_results == sort_by_file_name(r.results)
        records == table_records(replace_results)
        has_error == Cardinality({i \in 1..Len(replace_results) :
                         replace_results[i].status.kind \in
                           IF dry_run THEN {"Error", "Replaced"} ELSE {"Error"}})
    IN [parser_result |-> parser_result, batch |-> r,
        replace_results |-> replace_results, records |-> records,
        exit |-> IF Len(records) = 0
                 THEN CmdExit_error_with_message("Not found block to replace")
                 ELSE IF has_error > 0
                 THEN CmdExit_error_with_message("Finished with errors")
                 ELSE CmdExit_ok]

\* cmd::replace::exec after the configuration is loaded
replace_exec(srcs, fs, src_files, files, dry_run) ==
    LET parser_result == extract_content(srcs, src_files, Patterns)
        r == IF dry_run THEN stats(fs, files, parser_result)
             ELSE replace_content(fs, files, parser_result)
        replace_results == sort_by_file_name(r.results)
        records == table_records(replace_results)
        has_error == Cardinality({i \in 1..Len(replace_results) :
                         replace_results[i].status.kind = "Error"})
    IN [parser_result |-> parser_result, batch |-> r,
        replace_results |-> replace_results, records |-> records,
        exit |-> IF Len(records) = 0
                 THEN CmdExit_error_with_message("Not found block to replace")
                 ELSE IF has_error > 0
                 THEN CmdExit_error_with_message("Finished with errors")
                 ELSE CmdExit_ok]

\* the source files of the commands: one that cannot be read, blocks a and
\* b, a second block a with other data, and an identifier that is no regex
CmdSources ==
    {SourceFile(FALSE, <<>>),
     SourceFile(TRUE, <<<<Marker("START"), IdTag("a", 0)>>,
                        <<Ws, Cleanable("doc"), Y>>, <<Marker("END")>>>>),
     SourceFile(TRUE, <<<<Marker("START"), IdTag("a", 0)>>, <<X>>,
                        <<Marker("END")>>>>),
     SourceFile(TRUE, <<<<Marker("START"), IdTag("b", 1)>>, <<X>>,
                        <<Marker("END")>>>>),
     SourceFile(TRUE, <<<<Marker("START"), IdTag(BadId, 0)>>, <<X>>,
                        <<Marker("END")>>>>)}

\* the target files of the commands
CmdDocs ==
    {InvalidUtf8,
     <<StartMarker("a", 1), EndMarker("a", 1)>>,
     <<StartMarker("a", 1), NL, Y, NL, EndMarker("a", 1)>>,
     <<StartMarker("b", 0), X, EndMarker("b", 0)>>}

InitCommands ==
    /\ sources \in [SrcPaths -> CmdSources]
    /\ disk \in [TargetPaths -> CmdDocs]
    /\ contents = <<>>
    /\ call = [c |-> NoCall, pre |-> disk]
    /\ src = <<>>
    /\ ext = NotStarted
    /\ cmd = NoCmd
    /\ workers = NoWorkers

\* rdocs collect: one run of the binary
ExecCollect(files, format, output) ==
    \E c \in {collect_exec(sources, files, format, output)} :
    /\ cmd.op = "none"
    /\ cmd' = [op |-> "collect", files |-> files, format |-> format,
               output |-> output, exported |-> c.exported,
               written |-> c.written, exit |-> c.exit, pre |-> disk]
    /\ contents' = c.results
    /\ call' = [c |-> [NoCall EXCEPT !.op = "extract_content", !.files = files],
                pre |-> disk]
    /\ UNCHANGED <<disk, src, ext, sources, workers>>

\* rdocs replace, with or without --dry-run: one run of the binary
ExecReplace(src_files, files, dry_run) ==
    \E c \in {replace_exec(sources, disk, src_files, files, dry_run)} :
    /\ cmd.op = "none"
    /\ cmd' = [op |-> "replace", src_files |-> src_files, files |-> files,
               dry_run |-> dry_run, replace_results |-> c.replace_results,
               records |-> c.records, exit |-> c.exit, pre |-> disk]
    /\ contents' = c.parser_result
    /\ call' = BatchCall(IF dry_run THEN "stats" ELSE "replace_content",
                         files, c.batch)
    /\ disk' = c.batch.fs
    /\ UNCHANGED <<src, ext, sources, workers>>

NextCommands ==
    \/ \E files \in Orders(DOMAIN sources), format \in Formats, output \in Outputs :
          ExecCollect(files, format, output)
    \/ \E src_files \in Orders(DOMAIN sources), files \in Orders(DOMAIN disk),
          dry_run \in BOOLEAN :
          ExecReplace(src_files, files, dry_run)

SpecCommands == InitCommands /\ [][NextCommands]_vars

----------------------------------------------------------------------------
(* The workers of a batch entry point: files.par_iter() gives every file   *)
(* to a task of the pool, and the tasks run in any interleaving.  A task   *)
(* reads its file, computes the statuses, and in replace_content creates   *)
(* the file and writes it when a status is Replaced.                       *)

WorkerPaths == {"README.md", "docs/guide.md", "docs/locked.md"}

WorkerDocs ==
    {InvalidUtf8,
     <<StartMarker("a", 1), EndMarker("a", 1)>>,
     <<StartMarker("b", 0), X, EndMarker("b", 0)>>}

\* the ContentResults every task borrows
WorkerContents ==
    {<<ContentResults("a", <<X>>)>>,
     <<ContentResults("a", <<X>>), ContentResults("b", <<Y>>)>>,
     <<ContentResults("a", <<X>>), ContentResults(BadId, <<X>>)>>}

\* every task working on the first file
closure_path_first(files, i) == files[1]

\* the path the closure of task i is called with
closure_path(files, i) == files[i]

Task(pc, ret, out) == [pc |-> pc, ret |-> ret, out |-> out]

Access(i, path, kind) == [worker |-> i, path |-> path, access |-> kind]

InitWorkers ==
    /\ disk \in [WorkerPaths -> WorkerDocs]
    /\ contents \in WorkerContents
    /\ call = [c |-> NoCall, pre |-> disk]
    /\ src = <<>>
    /\ ext = NotStarted
    /\ sources = <<>>
    /\ cmd = NoCmd
    /\ workers = NoWorkers

\* replace_content or stats is called: the files are handed to the pool
StartBatch(op, files) ==
    /\ workers.op = "none"
    /\ workers' = [op |-> op, files |-> files, pre |-> disk,
                   tasks |-> [i \in 1..Len(files) |-> Task("ready", <<>>, <<>>)],
                   log |-> <<>>]
    /\ UNCHANGED <<disk, contents, call, src, ext, sources, cmd>>

\* a task runs Replace::replace: it reads its file and computes the statuses
TaskReplace(i) ==
    /\ workers.op \in {"stats", "replace_content"}
    /\ workers.tasks[i].pc = "ready"
    /\ LET path == closure_path(workers.files, i)
           r == replace(disk, path, contents)
           is_changed == \E k \in 1..Len(r.ret.results) : IsReplaced(r.ret.results[k])
           task == IF ~r.ret.ok
                   THEN Task("done", r.ret, ErrorResult(path, r.ret.err))
                   ELSE IF workers.op = "stats" \/ ~is_changed
                   THEN Task("done", r.ret, r.ret.results)
                   ELSE Task("replaced", r.ret, <<>>)
       IN workers' = [workers EXCEPT !.tasks[i] = task,
                                     !.log = Append(@, Access(i, path, "read"))]
    /\ UNCHANGED <<disk, contents, call, src, ext, sources, cmd>>

\* a task of replace_content runs File::create: the file is truncated
TaskCreate(i) ==
    /\ workers.op = "replace_content"
    /\ workers.tasks[i].pc = "replaced"
    /\ LET path == closure_path(workers.files, i) IN
       /\ workers' = [workers EXCEPT
                        !.tasks[i] = IF File_create_ok(path)
                                     THEN Task("created", @.ret, <<>>)
                                     ELSE Task("done", @.ret,
                                               ErrorResult(path, "Permission denied")),
                        !.log = Append(@, Access(i, path, "create"))]
       /\ disk' = IF File_create_ok(path) THEN write_all(disk, path, <<>>) ELSE disk
    /\ UNCHANGED <<contents, call, src, ext, sources, cmd>>

\* a task of replace_content runs write_all and returns its statuses
TaskWrite(i) ==
    /\ workers.op = "replace_content"
    /\ workers.tasks[i].pc = "created"
    /\ LET path == closure_path(workers.files, i) IN
       /\ workers' = [workers EXCEPT
                        !.tasks[i] = Task("done", @.ret, @.ret.results),
                        !.log = Append(@, Access(i, path, "write"))]
       /\ disk' = write_all(disk, path, workers.tasks[i].ret.content)
    /\ UNCHANGED <<contents, call, src, ext, sources, cmd>>

\* flatten().collect(): the vectors of the tasks in the order of the files
CollectBatch ==
    /\ workers.op \in {"stats", "replace_content"}
    /\ \A i \in 1..Len(workers.files) : workers.tasks[i].pc = "done"
    /\ call' = [c |-> [NoCall EXCEPT
                         !.op = workers.op, !.files = workers.files,
                         !.results = flatten([i \in 1..Len(workers.files) |->
                                                workers.tasks[i].out])],
                pre |-> workers.pre]
    /\ workers' = [workers EXCEPT !.op = "collected"]
    /\ UNCHANGED <<disk, contents, src, ext, sources, cmd>>

NextWorkers ==
    \/ \E op \in {"stats", "replace_content"}, files \in Orders(DOMAIN disk) :
          StartBatch(op, files)
    \/ \E i \in 1..Cardinality(DOMAIN disk) : TaskReplace(i)
    \/ \E i \in 1..Cardinality(DOMAIN disk) : TaskCreate(i)
    \/ \E i \in 1..Cardinality(DOMAIN disk) : TaskWrite(i)
    \/ CollectBatch

SpecWorkers == InitWorkers /\ [][NextWorkers]_vars

----------------------------------------------------------------------------
(* Properties of the extractor *)

PatternIndexes == 1..Len(Patterns)

StartCount(p) == captures_count(Patterns[p].start, Patterns[p].anchored, src)
EndCount(p) == captures_count(Patterns[p].end, Patterns[p].anchored, src)

Balanced == \A p \in PatternIndexes : StartCount(p) = EndCount(p)

\* the lines that carry a parseable <id:...> token
LinesWithId == SelectSeq(src, HasMetadata)

\* the start-marker occurrences of a pattern on lines with an identifier
StartOccurrencesWithId(p) ==
    captures_count(Patterns[p].start, Patterns[p].anchored, LinesWithId)

\* the lines that match the start marker of a pattern and carry an identifier
StartLinesWithId(p) ==
    {l \in 1..Len(src) : start_with(Patterns[p], src[l]) /\ HasMetadata(src[l])}

\* C1 as claimed: on a file with equal start and end counts for every
\* pattern extraction succeeds and returns as many ContentResults as there
\* are start-marker occurrences with an identifier, summed over the patterns.
C1_OnePerStartOccurrence ==
    Balanced
    => /\ ext.pc # "failed"
       /\ ext.pc = "done"
            => Len(ext.results) =
                 Sum([p \in PatternIndexes |-> StartOccurrencesWithId(p)])

\* C1 as amended: the number of ContentResults is the number of lines that
\* match a start marker and carry an identifier, summed over the patterns; a
\* line counts once for a pattern however many start markers it holds.
C1_OnePerStartLine ==
    Balanced
    => /\ ext.pc # "failed"
       /\ ext.err = NoError
       /\ ext.pc = "done"
            => Len(ext.results) =
                 Sum([p \in PatternIndexes |-> Cardinality(StartLinesWithId(p))])

C1_Witness_ExtractedWithIdlessStart ==
    /\ ext.pc = "done"
    /\ Len(ext.results) = 2
    /\ \E l \in 1..Len(src) :
          start_with(Patterns[1], src[l]) /\ ~HasMetadata(src[l])

\* C2: on a file where some pattern has different start and end counts,
\* extraction fails with PatterNotEqual carrying the start and the end text
\* of one such pattern, and yields no ContentResults, no block either.
C2_UnbalancedFails ==
    (ext.pc # "start" /\ ~Balanced)
    => /\ ext.pc = "failed"
       /\ ext.err.kind = "PatterNotEqual"
       /\ \E p \in PatternIndexes :
             /\ StartCount(p) # EndCount(p)
             /\ ext.err.pattern_start = Patterns[p].start
             /\ ext.err.pattern_end = Patterns[p].end
       /\ ext.results = <<>>
       /\ ext.collected = <<>>

C2_Witness_BalancedPatternDropped ==
    /\ ext.pc = "failed"
    /\ ext.err.pattern_start = Patterns[2].start
    /\ StartCount(1) = EndCount(1)
    /\ StartLinesWithId(1) # {}
    /\ ext.results = <<>>

\* the blocks of pattern p in a map, in key order
BlocksOf(map, p) ==
    LET OfPattern(b) == b.pattern_index = p IN SelectSeq(map, OfPattern)

\* what a line is for pattern p, as Content::extract tests it
ValidStart(p, line) == start_with(Patterns[p], line) /\ HasMetadata(line)
IdlessStart(p, line) == start_with(Patterns[p], line) /\ ~HasMetadata(line)
EndLine(p, line) == ~start_with(Patterns[p], line) /\ end_with(Patterns[p], line)
ContentLine(p, line) ==
    ~start_with(Patterns[p], line) /\ ~end_with(Patterns[p], line)

\* the state Content::extract keeps for pattern p
PState(e, p) ==
    [level |-> e.current_levels[p],
     open |-> {x \in e.level_stack : x[1] = p},
     blocks |-> BlocksOf(e.collected, p)]

\* a step of the scan, and the line it handles
IsScanStep ==
    ext.pc = "scan" /\ ext'.pc = "scan" /\ ext'.line_index = ext.line_index + 1
CurLine == src[ext.line_index + 1]

\* line i comes after a start marker without identifier of p, with no
\* marker line of p in between
AfterIdlessStart(p, i) ==
    \E j \in 1..(i - 1) :
        /\ IdlessStart(p, src[j])
        /\ \A k \in (j + 1)..(i - 1) : ContentLine(p, src[k])

\* before line i a start marker with identifier of p has no end marker of p
\* after it
OpenedBefore(p, i) ==
    \E j \in 1..(i - 1) :
        /\ ValidStart(p, src[j])
        /\ \A k \in (j + 1)..(i - 1) : ~EndLine(p, src[k])

\* C11 as claimed: a start-marker line without identifier creates no block
\* and leaves the counter, and the content lines after it, up to the next
\* marker line of the pattern, are captured into no block of the pattern.
C11_IdlessStartStopsCapture ==
    [][IsScanStep
       => \A p \in PatternIndexes :
            /\ IdlessStart(p, CurLine)
               => /\ ext'.current_levels[p] = ext.current_levels[p]
                  /\ BlocksOf(ext'.collected, p) = BlocksOf(ext.collected, p)
            /\ (ContentLine(p, CurLine) /\ AfterIdlessStart(p, ext.line_index + 1))
               => BlocksOf(ext'.collected, p) = BlocksOf(ext.collected, p)]_vars

\* C11 as amended: a start-marker line without identifier leaves the whole
\* state of its pattern as it was (counter, open flag, blocks); the content
\* lines after it are captured into no block when the pattern was closed,
\* and go on into the newest block when a block of the pattern was open.
C11_IdlessStartSkipped ==
    [][IsScanStep
       => \A p \in PatternIndexes :
            /\ IdlessStart(p, CurLine) => PState(ext', p) = PState(ext, p)
            /\ (ContentLine(p, CurLine) /\ AfterIdlessStart(p, ext.line_index + 1))
               => IF OpenedBefore(p, ext.line_index + 1)
                  THEN BlocksOf(ext'.collected, p) =
                         push_line(BlocksOf(ext.collected, p), p,
                                   ext.current_levels[p], CurLine)
                  ELSE BlocksOf(ext'.collected, p) = BlocksOf(ext.collected, p)]_vars

C11_Witness_CapturedAfterIdlessStart ==
    /\ ext.pc = "scan"
    /\ ext.line_index = 3
    /\ ValidStart(1, src[1])
    /\ IdlessStart(1, src[2])
    /\ src[3] = <<X>>
    /\ BlocksOf(ext.collected, 1)[1].lines = <<<<X>>>>

\* the blocks of the scan that carry identifier id, in key order
BlocksWithId(id) ==
    LET HasId(b) == b.id = id IN SelectSeq(ext.collected, HasId)

\* C12: the identifiers of the emitted ContentResults are unique; of the
\* blocks that carry one identifier only the last is emitted.
C12_UniqueIdentifiers ==
    ext.pc = "done"
    => /\ \A i, j \in 1..Len(ext.results) :
             i # j => ext.results[i].id # ext.results[j].id
       /\ \A k \in 1..Len(ext.collected) :
             LET same == BlocksWithId(ext.collected[k].id)
             IN \E i \in 1..Len(ext.results) :
                   ext.results[i] = finalize(<<same[Len(same)]>>, Patterns)[1]

\* the identifiers of the start-marker lines with identifier of p, in the
\* order of the lines
RECURSIVE StartIdsFrom(_, _)
StartIdsFrom(p, l) ==
    IF l > Len(src) THEN <<>>
    ELSE (IF ValidStart(p, src[l]) THEN <<ContentMetadata_new(src[l])>> ELSE <<>>)
           \o StartIdsFrom(p, l + 1)

\* C13: the ContentResults come pattern by pattern in configuration order
\* and, within a pattern, in the order of its start markers, whatever the
\* order of the blocks in the file.
C13_PatternThenOccurrence ==
    ext.pc = "done"
    => /\ Len(ext.results) = Len(ext.collected)
       /\ [k \in 1..Len(ext.results) |-> ext.results[k].id]
            = StartIdsFrom(1, 1) \o StartIdsFrom(2, 1)
       /\ \A k \in 1..(Len(ext.collected) - 1) :
             KeyLess(ext.collected[k], ext.collected[k + 1])

C13_Witness_SecondPatternFirstInFile ==
    /\ ext.pc = "done"
    /\ Len(ext.results) = 3
    /\ ValidStart(2, src[1])
    /\ ext.collected[3].pattern_index = 2
    /\ ext.results[1].id = "b"
    /\ ext.results[3].id = "a"

\* the lines with a newline between each two
Joined(lines) ==
    flatten([i \in 1..Len(lines) |->
               IF i = 1 THEN lines[i] ELSE <<NL>> \o lines[i]])

\* text matched by a cleanup regex of pattern p
Matched(p, t) ==
    \E c \in 1..Len(Patterns[p].cleanups) : t = Cleanable(Patterns[p].cleanups[c])

\* the text without what the cleanup regexes of pattern p match
Cleaned(p, text) ==
    LET Kept(t) == ~Matched(p, t) IN SelectSeq(text, Kept)

\* the text from its first to its last character that is no whitespace
Stripped(text) ==
    LET solid == {i \in 1..Len(text) : ~IsWs(text[i])}
    IN IF solid = {} THEN <<>> ELSE SubSeq(text, Min(solid), Max(solid))

\* C16: the data of every ContentResults is the lines of its block joined
\* with newlines, without the matches of the cleanup rules of the block's own
\* pattern, trimmed; it neither begins nor ends with whitespace.
C16_DataJoinedCleanedTrimmed ==
    ext.pc = "done"
    => /\ Len(ext.results) = Len(ext.collected)
       /\ \A k \in 1..Len(ext.results) :
             LET b == ext.collected[k]
                 data == ext.results[k].data
             IN /\ ext.results[k].id = b.id
                /\ data = Stripped(Cleaned(b.pattern_index, Joined(b.lines)))
                /\ data # <<>> => ~IsWs(data[1]) /\ ~IsWs(data[Len(data)])

C16_Witness_CleanedAndTrimmed ==
    /\ ext.pc = "done"
    /\ \E k \in 1..Len(ext.results) :
          /\ ext.collected[k].lines = <<<<Ws, Cleanable("doc"), Y>>, <<X>>>>
          /\ ext.collected[k].pattern_index = 1
          /\ ext.results[k].data = <<Y, NL, X>>

\* no cleanup regex of pattern p matches in the text
Clean(p, text) == \A i \in 1..Len(text) : ~Matched(p, text[i])

\* C17: cleanup returns a text in which none of the pattern's cleanup rules
\* matches as it is: the lines of the file, the joined lines of every block,
\* under every pattern; the data of such a block is its joined lines, trimmed.
C17_CleanupIdentityOnClean ==
    /\ \A p \in PatternIndexes :
          /\ \A l \in 1..Len(src) :
                Clean(p, src[l]) => cleanup(Patterns[p], src[l]) = src[l]
          /\ Clean(p, join(src)) => cleanup(Patterns[p], join(src)) = join(src)
    /\ ext.pc = "done"
       => \A k \in 1..Len(ext.collected) :
            Clean(ext.collected[k].pattern_index, join(ext.collected[k].lines))
            => ext.results[k].data = trim(join(ext.collected[k].lines))

C17_Witness_CleanForSecondPattern ==
    /\ ext.pc = "done"
    /\ \E k \in 1..Len(ext.collected) :
          /\ ext.collected[k].pattern_index = 2
          /\ ext.collected[k].lines = <<<<Ws, Cleanable("doc"), Y>>>>
          /\ Clean(2, join(ext.collected[k].lines))
          /\ ~Clean(1, join(ext.collected[k].lines))
          /\ ext.results[k].data = <<Cleanable("doc"), Y>>

\* the scan of the lines read so far with pattern p as the only pattern
Alone(p) ==
    scan_lines(scan_start(<<Patterns[p]>>), <<Patterns[p]>>,
               SubSeq(src, 1, ext.line_index), 0)

\* a block without the index of its pattern
Unindexed(blocks) ==
    [k \in 1..Len(blocks) |->
       [level |-> blocks[k].level, id |-> blocks[k].id, lines |-> blocks[k].lines]]

\* the blocks that precede those of pattern p in key order
Offset(p) == Sum([q \in 1..(p - 1) |-> Len(BlocksOf(ext.collected, q))])

\* C18: at every point of the scan of a file that passes validation, the
\* counter, the open flag and the blocks of a pattern are those of the scan
\* of the same lines with that pattern configured alone, and the
\* ContentResults emitted for it are those of the extraction with it alone.
C18_PatternsIndependent ==
    ext.pc \in {"scan", "done"}
    => \A p \in PatternIndexes :
         LET alone == Alone(p)
             mine == BlocksOf(ext.collected, p)
         IN /\ Content_new(src, <<Patterns[p]>>).ok
            /\ ext.current_levels[p] = alone.current_levels[1]
            /\ {x[2] : x \in {y \in ext.level_stack : y[1] = p}}
                 = {x[2] : x \in alone.level_stack}
            /\ Unindexed(mine) = Unindexed(alone.collected)
            /\ ext.pc = "done"
               => SubSeq(ext.results, Offset(p) + 1, Offset(p) + Len(mine))
                    = extract(src, <<Patterns[p]>>)

C18_Witness_OtherPatternsMarkersInside ==
    /\ ext.pc = "done"
    /\ Len(ext.collected) = 2
    /\ ext.collected[2].pattern_index = 2
    /\ ext.collected[2].lines = <<<<Marker("START"), IdTag("a", 0)>>, <<Marker("END")>>>>
    /\ ext.collected[1].lines = <<>>

\* C19: a line goes to the newest block of its pattern only, so a block
\* gets no line once a later start marker with identifier of its pattern
\* was read; and from an end marker of the pattern on no block of the
\* pattern gets a line until a start marker with identifier is read.
C19_NestedStartTruncatesOuter ==
    [][IsScanStep
       => \A p \in PatternIndexes :
            LET old == BlocksOf(ext.collected, p)
                new == BlocksOf(ext'.collected, p)
            IN /\ Len(new) >= Len(old)
               /\ \A k \in 1..Len(old) :
                     old[k].level < ext'.current_levels[p] => new[k] = old[k]
               /\ (~OpenedBefore(p, ext.line_index + 1) /\ ~ValidStart(p, CurLine))
                  => new = old]_vars

C19_Witness_OuterTruncated ==
    /\ ext.pc = "done"
    /\ Len(src) = 7
    /\ ValidStart(1, src[1])
    /\ ValidStart(1, src[3])
    /\ EndLine(1, src[5])
    /\ ContentLine(1, src[6])
    /\ EndLine(1, src[7])
    /\ BlocksOf(ext.collected, 1)[1].lines = <<src[2]>>
    /\ BlocksOf(ext.collected, 1)[2].lines = <<src[4]>>

\* C20: the counter of a pattern is 0 before the scan and at every point of
\* the scan the number of start-marker lines with identifier read so far,
\* which is the number of blocks of the pattern; the blocks carry the
\* counter values 1, 2, ... in order.
C20_CounterCountsValidStarts ==
    \A p \in PatternIndexes :
        LET blocks == BlocksOf(ext.collected, p) IN
        /\ ext.pc \in {"start", "failed"} => ext.current_levels[p] = 0
        /\ ext.current_levels[p] =
              Cardinality({l \in 1..ext.line_index : ValidStart(p, src[l])})
        /\ ext.current_levels[p] = Len(blocks)
        /\ \A k \in 1..Len(blocks) : blocks[k].level = k

C20_Witness_EndKeepsCounter ==
    /\ ext.pc = "scan"
    /\ ext.line_index = 4
    /\ ext.current_levels[1] = 2
    /\ EndLine(1, src[3])
    /\ IdlessStart(1, src[4])
    /\ ~contains_key(ext.level_stack, 1)

\* C21 as claimed: the end-marker line that follows a start marker without
\* identifier changes neither the open flag nor the blocks of its pattern.
C21_EndAfterIdlessStartIgnored ==
    [][IsScanStep
       => \A p \in PatternIndexes :
            (EndLine(p, CurLine) /\ AfterIdlessStart(p, ext.line_index + 1))
            => PState(ext', p) = PState(ext, p)]_vars

\* the marker line of p read last before line i is an end marker
AfterEndLine(p, i) ==
    \E j \in 1..(i - 1) :
        /\ EndLine(p, src[j])
        /\ \A k \in (j + 1)..(i - 1) : ContentLine(p, src[k])

\* C21 as amended: the end-marker line that follows a start marker without
\* identifier acts like every end marker: it leaves the counter and the
\* blocks of its pattern and clears the open flag, so a block that was open
\* before the start marker without identifier stops collecting there, and
\* the lines after that end marker go to no block of the pattern.
C21_EndAfterIdlessStartCloses ==
    [][IsScanStep
       => \A p \in PatternIndexes :
            /\ (EndLine(p, CurLine) /\ AfterIdlessStart(p, ext.line_index + 1))
               => /\ ext'.current_levels[p] = ext.current_levels[p]
                  /\ BlocksOf(ext'.collected, p) = BlocksOf(ext.collected, p)
                  /\ PState(ext', p).open = {}
            /\ (ContentLine(p, CurLine) /\ AfterEndLine(p, ext.line_index + 1))
               => BlocksOf(ext'.collected, p) = BlocksOf(ext.collected, p)]_vars

C21_Witness_OpenBlockClosed ==
    /\ ext.pc = "scan"
    /\ ext.line_index = 4
    /\ ValidStart(1, src[1])
    /\ IdlessStart(1, src[2])
    /\ EndLine(1, src[3])
    /\ src[4] = <<X>>
    /\ BlocksOf(ext.collected, 1)[1].lines = <<>>
    /\ ~contains_key(ext.level_stack, 1)

\* C22: on a file that passes validation, a line is collected into a block
\* of a pattern only if a later line holds an end marker of that pattern.
C22_CollectedLinesBeforeEnd ==
    [][IsScanStep
       => \A p \in PatternIndexes :
            BlocksOf(ext'.collected, p) # BlocksOf(ext.collected, p)
            => \/ ValidStart(p, CurLine)
               \/ \E k \in (ext.line_index + 2)..Len(src) :
                     end_with(Patterns[p], src[k])]_vars

\* the lines of all blocks of pattern p
LinesOfBlocks(p) ==
    LET blocks == BlocksOf(ext.collected, p)
    IN UNION {{blocks[k].lines[n] : n \in 1..Len(blocks[k].lines)} :
                k \in 1..Len(blocks)}

\* C29: a step of the scan appends a line to a block of a pattern only when
\* the pattern is open and the line is no marker line of that pattern, and
\* then it appends the line as it is to the newest block; so no block holds a
\* marker line of its own pattern, with or without identifier, while marker
\* lines of another pattern are collected like any line.
C29_OnlyContentLinesAppended ==
    [][IsScanStep
       => \A p \in PatternIndexes :
            LET old == BlocksOf(ext.collected, p)
                new == BlocksOf(ext'.collected, p)
                appended == /\ contains_key(ext.level_stack, p)
                            /\ ContentLine(p, CurLine)
            IN /\ appended
                  => new = push_line(old, p, ext.current_levels[p], CurLine)
               /\ ~appended
                  => \A k \in 1..Len(old) : new[k] = old[k]
               /\ \A line \in LinesOfBlocks(p) : ContentLine(p, line)]_vars

C29_Witness_OtherMarkersCollected ==
    /\ ext.pc = "done"
    /\ Len(ext.collected) = 2
    /\ ext.collected[1].pattern_index = 1
    /\ ext.collected[1].lines = <<<<Marker("P2_START"), IdTag("a", 0)>>,
                                   <<Marker("P2_END")>>>>
    /\ ext.collected[2].lines = <<>>

----------------------------------------------------------------------------
(* Properties of batch extraction *)

Readable(path) == sources[path].readable

\* every pattern has as many start markers as end markers in the file
BalancedFile(path) ==
    \A p \in PatternIndexes :
        captures_count(Patterns[p].start, Patterns[p].anchored, sources[path].lines)
          = captures_count(Patterns[p].end, Patterns[p].anchored, sources[path].lines)

\* the start markers of the file, over all patterns
StartTotal(path) ==
    Sum([p \in PatternIndexes |->
           captures_count(Patterns[p].start, Patterns[p].anchored,
                          sources[path].lines)])

\* the ContentResults of a file extracted on its own
ResultsOf(path) == extract(sources[path].lines, Patterns)

\* C14: the batch result is made of the ContentResults of the files that
\* are readable and balanced, each as extracted on its own; a file that is
\* unreadable, unbalanced or without start marker contributes nothing, and
\* the results of the other files are there whatever file fails.
C14_FailuresIsolatedPerFile ==
    call.c.op = "extract_content"
    => /\ contents =
            flatten([i \in 1..Len(call.c.files) |->
                       IF Readable(call.c.files[i]) /\ BalancedFile(call.c.files[i])
                       THEN ResultsOf(call.c.files[i]) ELSE <<>>])
       /\ \A path \in DOMAIN sources :
             (Readable(path) /\ BalancedFile(path) /\ StartTotal(path) = 0)
             => ResultsOf(path) = <<>>

C14_Witness_OneFileFailsOtherKept ==
    /\ call.c.op = "extract_content"
    /\ Len(call.c.files) = 2
    /\ Readable(call.c.files[1]) /\ ~BalancedFile(call.c.files[1])
    /\ Readable(call.c.files[2]) /\ BalancedFile(call.c.files[2])
    /\ Len(contents) = 2
    /\ contents = ResultsOf(call.c.files[2])

----------------------------------------------------------------------------
(* Properties of the replacer *)

FileOps == {"replace", "replace_with_save"}
BatchOps == {"stats", "replace_content"}

\* the file of a single-file call
CallPath == call.c.files[1]

\* the running text the i-th ContentResults of the last call was matched on
Before(i) == IF i = 1 THEN call.pre[CallPath] ELSE call.c.texts[i - 1]

SomeReplaced(results) == \E i \in 1..Len(results) : IsReplaced(results[i])

BadAt(pcs) == {i \in 1..Len(pcs) : ~Regex_new(pcs[i].id)}

DistinctIds(pcs) ==
    \A i, j \in 1..Len(pcs) : i # j => pcs[i].id # pcs[j].id

\* the positions from the first start marker of id to its last end marker
Span(doc, id) ==
    IF is_match(doc, id)
    THEN captures(doc, id).s .. captures(doc, id).e
    ELSE {}

DisjointSpans(doc) ==
    \A i, j \in Ids : i # j => Span(doc, i) \cap Span(doc, j) = {}

\* C3: running replace again on the text the first run produced, with the
\* same ContentResults, yields Equal for every identifier that was Replaced
\* on the first run.  Stated for the inputs where no identifier occurs twice
\* in the ContentResults and no marker pair lies inside or across another.
C3_SecondRunEqual ==
    (/\ call.c.op = "replace_with_save"
     /\ call.c.ok
     /\ DistinctIds(contents)
     /\ DisjointSpans(call.pre[CallPath]))
    => LET second == replace(disk, CallPath, contents).ret IN
       \A i \in 1..Len(call.c.results) :
           IsReplaced(call.c.results[i])
           => second.ok /\ second.results[i].status.kind = "Equal"

C5_NoWrite ==
    call.c.op \in {"stats", "replace"}
    => disk = call.pre /\ call.c.created = {}

C5_Witness_ReplacedNotWritten ==
    /\ call.c.op = "stats"
    /\ SomeReplaced(call.c.results)
    /\ disk = call.pre

\* C6: a Replaced status replaces the matched span by the start marker as
\* matched, a newline, the data verbatim, a newline and the end marker as
\* matched, and the matcher still finds the pair in the new text.
C6_ReplacementVerbatim ==
    call.c.op \in FileOps
    => \A i \in 1..Len(call.c.seen) :
         IsReplaced(call.c.seen[i])
         => LET b == Before(i)
                id == contents[i].id
                m == captures(b, id)
            IN /\ call.c.texts[i] =
                      SubSeq(b, 1, m.s - 1) \o <<b[m.s], NL>>
                        \o contents[i].data \o <<NL, b[m.e]>>
                        \o SubSeq(b, m.e + 1, Len(b))
               /\ call.c.seen[i].status.all_content = call.c.texts[i]
               /\ is_match(call.c.texts[i], id)

C8_NotFoundKeepsText ==
    call.c.op \in FileOps
    => \A i \in 1..Len(call.c.seen) :
         LET b == Before(i)
             id == contents[i].id
         IN (~\E s \in StartsAt(b, id), e \in EndsAt(b, id) : s < e)
            => /\ call.c.seen[i].status = Status("NotFound", id, <<>>, <<>>)
               /\ call.c.texts[i] = b

C8_Witness_NotFoundAfterReplaced ==
    /\ call.c.op \in FileOps
    /\ Len(call.c.seen) = 2
    /\ IsReplaced(call.c.seen[1])
    /\ call.c.seen[2].status.kind = "NotFound"
    /\ call.c.texts[2] # <<>>

\* C9: with a marker pair found, the status is Equal(id) and the text stays
\* when the captured text, trimmed, equals the data, trimmed; in every other
\* matched case it is Replaced.  replace_with_save without a Replaced status
\* writes nothing.
C9_EqualWhenTrimmedEqual ==
    /\ call.c.op \in FileOps
       => \A i \in 1..Len(call.c.seen) :
            LET b == Before(i)
                id == contents[i].id
            IN is_match(b, id)
               => LET m == captures(b, id)
                      existing == SubSeq(b, m.s + 1, m.e - 1)
                  IN IF trim(existing) = trim(contents[i].data)
                     THEN /\ call.c.seen[i].status = Status("Equal", id, <<>>, <<>>)
                          /\ call.c.texts[i] = b
                     ELSE call.c.seen[i].status.kind = "Replaced"
    /\ (call.c.op = "replace_with_save" /\ ~SomeReplaced(call.c.results))
       => call.c.created = {} /\ disk = call.pre

C9_Witness_EqualAfterTrim ==
    /\ call.c.op = "replace_with_save"
    /\ call.c.ok
    /\ Len(call.c.results) >= 1
    /\ call.c.results[1].status.kind = "Equal"
    /\ LET m == captures(call.pre[CallPath], contents[1].id)
       IN SubSeq(call.pre[CallPath], m.s + 1, m.e - 1) # contents[1].data
    /\ call.c.created = {}

RunningText(i) ==
    LET prev == {j \in 1..(i - 1) : IsReplaced(call.c.seen[j])}
    IN IF prev = {} THEN call.pre[CallPath]
       ELSE call.c.seen[Max(prev)].status.all_content

\* the marker pair of id in doc with the text it encloses
Block(doc, id) == SubSeq(doc, captures(doc, id).s, captures(doc, id).e)

C26_FailureWritesNothing ==
    /\ (call.c.op = "replace_with_save" /\ ~call.c.ok)
       => /\ call.c.err # ""
          /\ call.c.results = <<>>
          /\ call.c.created = {}
          /\ disk = call.pre
    /\ (call.c.op = "replace_content" /\ BadAt(contents) # {})
       => call.c.created = {} /\ disk = call.pre

C26_Witness_ReplacedThenFailed ==
    /\ call.c.op = "replace_with_save"
    /\ ~call.c.ok
    /\ Len(contents) = 2
    /\ ~Regex_new(contents[2].id)
    /\ Len(call.c.seen) >= 1
    /\ IsReplaced(call.c.seen[1])
    /\ call.c.seen[1].status.all_content # call.pre[CallPath]
    /\ disk[CallPath] = call.pre[CallPath]

\* the marker pairs of id in doc: a start marker and the next end marker
\* of id, with no marker of id in between
MarkerPairs(doc, id) ==
    {pr \in StartsAt(doc, id) \X EndsAt(doc, id) :
        /\ pr[1] < pr[2]
        /\ \A k \in (pr[1] + 1)..(pr[2] - 1) :
              ~(doc[k].v = id /\ doc[k].k \in {"start", "end"})}

Occurs(sub, text) ==
    \E k \in 0..(Len(text) - Len(sub)) : SubSeq(text, k + 1, k + Len(sub)) = sub

\* C28: a Replaced status of identifier X leaves the text before the first
\* start marker of X and after the last end marker of X, and every marker
\* pair of another identifier that lies before or after each marker pair of
\* X stands in the new text as it was, with the text it encloses.
C28_OnlyOwnBlockChanged ==
    call.c.op \in FileOps
    => \A i \in 1..Len(call.c.seen) :
         IsReplaced(call.c.seen[i])
         => LET b == Before(i)
                t == call.c.texts[i]
                x == contents[i].id
                first == Min(StartsAt(b, x))
                after == Len(b) - Max(EndsAt(b, x))
            IN /\ SubSeq(t, 1, first - 1) = SubSeq(b, 1, first - 1)
               /\ SubSeq(t, Len(t) - after + 1, Len(t))
                    = SubSeq(b, Len(b) - after + 1, Len(b))
               /\ \A y \in Ids \ {x} :
                     \A pr \in MarkerPairs(b, y) :
                        (\A px \in MarkerPairs(b, x) :
                              pr[2] < px[1] \/ px[2] < pr[1])
                        => Occurs(SubSeq(b, pr[1], pr[2]), t)

----------------------------------------------------------------------------
(* Properties of the commands *)

\* the results of one file, in their order
ResultsAt(results, path) == SelectSeq(results, LAMBDA r : r.path = path)

\* the results of the other files, in their order
ResultsNotAt(results, path) == SelectSeq(results, LAMBDA r : r.path # path)

EmptyOutcome ==
    CmdExit_error_with_message("code captures not found in the given path")

\* C30 as stated: the collect command ends in failure exactly when the batch
\* extraction returned no ContentResults.
C30_FailureIffNoResults ==
    cmd.op = "collect"
    => ((cmd.exit.ctor = "error_with_message") <=> (contents = <<>>))

\* C30: the collect command reports the empty outcome exactly when the batch
\* extraction returned no ContentResults, that is when no file gave a block,
\* and then exports nothing; with a ContentResults it exports and ends
\* successfully, unless the export fails, which is another failure.
C30_EmptyOutcomeIffNoResults ==
    cmd.op = "collect"
    => /\ contents = extract_content(sources, cmd.files, Patterns)
       /\ (contents = <<>>)
            <=> (\A f \in DOMAIN sources : extract_file(sources, f, Patterns) = <<>>)
       /\ (cmd.exit = EmptyOutcome) <=> (contents = <<>>)
       /\ (contents = <<>>) => (~cmd.exported /\ cmd.written = {})
       /\ (contents # <<>>)
            => /\ cmd.exported
               /\ IF cmd.output = "denied"
                  THEN cmd.exit = CmdExit_error_with_message("export result error")
                  ELSE cmd.exit = CmdExit_ok
       /\ disk = cmd.pre

C30_Witness_ExportFailed ==
    /\ cmd.op = "collect"
    /\ Len(contents) = 1
    /\ \E f \in DOMAIN sources : ~File_open(sources, f)
    /\ cmd.exported
    /\ cmd.exit.ctor = "error_with_message"

\* the call of a batch entry point on one file of the last batch
OneFile(path) ==
    IF call.c.op = "stats" THEN replace(call.pre, path, contents)
    ELSE replace_with_save(call.pre, path, contents)

\* the last batch over other files
Batch(files) ==
    IF call.c.op = "stats" THEN stats(call.pre, files, contents)
    ELSE replace_content(call.pre, files, contents)

\* C25: in replace_content and stats a file whose processing fails gives one
\* ReplaceResult with status Error for its path and is left as it was; the
\* results and the content of the other files are those of the batch without
\* the failing file.
C25_BatchDegradesPerFile ==
    call.c.op \in BatchOps
    => \A k \in 1..Len(call.c.files) :
         LET f == call.c.files[k] IN
         ~OneFile(f).ret.ok
         => /\ ResultsAt(call.c.results, f) = ErrorResult(f, OneFile(f).ret.err)
            /\ disk[f] = call.pre[f]
            /\ LET without == Batch(SelectSeq(call.c.files, LAMBDA g : g # f))
               IN /\ ResultsNotAt(call.c.results, f) = without.results
                  /\ \A g \in DOMAIN disk \ {f} : disk[g] = without.fs[g]

C25_Witness_BatchContinues ==
    /\ call.c.op = "replace_content"
    /\ Len(call.c.files) = 2
    /\ ~OneFile(call.c.files[1]).ret.ok
    /\ Len(call.c.results) = 2
    /\ call.c.results[1].status.kind = "Error"
    /\ IsReplaced(call.c.results[2])
    /\ disk[call.c.files[2]] # call.pre[call.c.files[2]]

\* the text of the last Replaced status
LastReplaced(results) ==
    results[Max({i \in 1..Len(results) : IsReplaced(results[i])})].status.all_content

C24_SourceOrderIndependent ==
    (cmd.op = "replace" /\ ~cmd.dry_run)
    => \A o \in Orders(DOMAIN sources) :
          replace_exec(sources, cmd.pre, o, cmd.files, FALSE).batch.fs = disk

----------------------------------------------------------------------------
(* Properties of the workers *)

\* the batch entry point of the workers run on its own over files
Sequential(files) ==
    IF call.c.op = "stats" THEN stats(workers.pre, files, contents)
    ELSE replace_content(workers.pre, files, contents)

\* C23: no two tasks of a batch read, create or write the same path, and
\* however the tasks interleave, the results of the batch and the content of
\* every file are those of the batch entry point run on that file alone.
C23_WorkersIndependent ==
    /\ workers.op # "none"
       => \A j, k \in 1..Len(workers.log) :
             workers.log[j].path = workers.log[k].path
             => workers.log[j].worker = workers.log[k].worker
    /\ workers.op = "collected"
       => /\ call.c.results = Sequential(workers.files).results
          /\ disk = Sequential(workers.files).fs
          /\ \A i \in 1..Len(workers.files) :
               LET f == workers.files[i]
                   alone == Sequential(<<f>>)
               IN /\ ResultsAt(call.c.results, f) = alone.results
                  /\ disk[f] = alone.fs[f]

C23_Witness_InterleavedWrites ==
    /\ workers.op = "collected"
    /\ call.c.op = "replace_content"
    /\ \E j, k, l, m \in 1..Len(workers.log) :
          /\ j < k /\ k < l /\ l < m
          /\ workers.log[j] = Access(1, workers.files[1], "create")
          /\ workers.log[k] = Access(2, workers.files[2], "read")
          /\ workers.log[l] = Access(2, workers.files[2], "write")
          /\ workers.log[m] = Access(1, workers.files[1], "write")
    /\ \E i \in 1..Len(call.c.results) : call.c.results[i].status.kind = "Error"

----------------------------------------------------------------------------
(* Properties of the exit of the replace command *)

\* the statuses of the last batch of one of the kinds
Kinds(kinds) ==
    {i \in 1..Len(call.c.results) : call.c.results[i].status.kind \in kinds}

\* C31: the replace command ends in failure when no ReplaceResult of the
\* batch is Equal or Replaced; otherwise it ends in failure exactly when a
\* ReplaceResult is Error, so a dry run with Replaced statuses and no Error
\* ends successfully.  The results are reported sorted by file name, the
\* results of one file name in the order of the batch.
C31_ReplaceExit ==
    cmd.op = "replace"
    => /\ IF Kinds({"Equal", "Replaced"}) = {}
          THEN cmd.exit = CmdExit_error_with_message("Not found block to replace")
          ELSE IF Kinds({"Error"}) # {}
          THEN cmd.exit = CmdExit_error_with_message("Finished with errors")
          ELSE cmd.exit = CmdExit_ok
       /\ Len(cmd.records) = Cardinality(Kinds({"Equal", "Replaced"}))
       /\ Len(cmd.replace_results) = Len(call.c.results)
       /\ \A p \in DOMAIN disk :
            ResultsAt(cmd.replace_results, p) = ResultsAt(call.c.results, p)
       /\ \A j, k \in 1..Len(cmd.replace_results) :
            j < k => OsStr_rank(file_name(cmd.replace_results[j].path))
                       <= OsStr_rank(file_name(cmd.replace_results[k].path))

C31_Witness_DryRunOutOfDate ==
    /\ cmd.op = "replace"
    /\ cmd.dry_run
    /\ Kinds({"Replaced"}) # {}
    /\ Kinds({"Error"}) = {}
    /\ Kinds({"NotFound"}) # {}
    /\ disk = cmd.pre
    /\ cmd.exit = CmdExit_ok

====
